---- MODULE Spec2Model ----
(***************************************************************************)
(* A model of the AI Playground front end: the job poller of               *)
(* TranscriptService, the three uploaders, and the three skill components  *)
(* (ConversationAnalysis, ImageAnalysis, DocumentSummarization).           *)
(*                                                                         *)
(* Text is modelled as a sequence of pieces, so that template strings and  *)
(* concatenation keep what was prepended: `Processing failed: ${m}` is     *)
(* <<"Processing failed: ", m>>.  File names are sequences of characters.  *)
(***************************************************************************)
EXTENDS Integers, Sequences, FiniteSets, TLC

VARIABLES
    \* ---- TranscriptService.pollForResults (one call) ----
    pollPc,       \* where the call is: idle, loop, awaitStatus, awaitResult,
                  \* delay5, delay2, returned, thrown
    attempts,     \* let attempts (part_000:116)
    onProgress,   \* whether the optional callback was supplied (part_000:113)
    status,       \* const status: the last parsed status response (part_000:127)
    pollResult,   \* the value the call returned
    pollError,    \* the error the call threw
    h,            \* what the call did so far: requests issued, callbacks made, ...
    \* ---- one skill component and its uploader ----
    skill,        \* which component this is: audio, image or document
    file,         \* audioFile / imageFile / documentFile
    upError,      \* the uploader's own error state
    up,           \* the file last handed to handleFile, validateFile's answer,
                  \* and whether onFileSelect was called for it
    loading,      \* useState(false)
    progress,     \* useState(0)
    result,       \* useState(null)
    error,        \* useState(null)
    activeTab,    \* useState(0)
    url,          \* DocumentSummarization: useState('')
    mode,         \* DocumentSummarization: useState('file')
    runPc,        \* where the processing run in flight is (idle: none)
    run,          \* what the run in flight holds and did
    \* ---- the page's environment ----
    env,          \* process.env.REACT_APP_API_BASE, as built into the page
    net,          \* the HTTP request issued last
    \* ---- DiarizationService.diarizeTranscript (one call) ----
    diar          \* where the call is, its argument, segments and result

pollVars == <<pollPc, attempts, onProgress, status, pollResult, pollError, h>>

uploaderVars == <<upError, up>>

componentVars == <<file, loading, progress, result, error, activeTab, url, mode>>

runVars == <<runPc, run>>

\* Everything but the state of the pollForResults call and the request it
\* issued last.
otherVars == <<skill, env, diar, file, upError, up, loading, progress, result, error,
               activeTab, url, mode, runPc, run>>

vars == <<pollPc, attempts, onProgress, status, pollResult, pollError, h,
          skill, env, file, upError, up, loading, progress, result, error,
          activeTab, url, mode, runPc, run, net, diar>>

----------------------------------------------------------------------------
(* Values *)

None == "none"

NoError == <<>>

\* The messages a backend puts on a status response.
Messages == {"bad audio", "queued"}

\* The result records a backend can hold for a job.
Results == {"r1", "r2"}

\* The progress values a backend reports.
Progresses == {40, 100}

\* HTTP codes of a non-2xx answer.
HttpErrors == {"500"}

\* The job ids a backend hands out.
JobIds == {"j1", "j2"}

\* The fallback of `process.env.REACT_APP_API_BASE || 'http://localhost:8000'`,
\* and the base URL written out in ImageAnalysis and DocumentSummarization.
DefaultBase == "http://localhost:8000"

\* Another base URL the page can be built with.
OtherBase == "https://api.example.com"

\* TranscriptService.API_BASE
API_BASE == IF env = None THEN DefaultBase ELSE env

\* fetch(`${base}${path}${id}`, {method})
Request(method, base, path, id) ==
    [method |-> method, base |-> base, path |-> path, id |-> id]

NoRequest == Request(None, None, None, None)

\* diarizeTranscript not called.
\* The hour cycle the engine's Intl takes for hour12: false in en-US: h23
\* (hours 00-23) or, by the older ECMA-402 rule, h24 (midnight's hour is 24).
HourCycles == {"h23", "h24"}

NoDiarization ==
    [pc |-> "idle", transcript |-> <<>>, segments |-> <<>>, result |-> <<>>,
     hourCycle |-> "h23"]

\* A request about one job, with a fixed id in place of the job's own.
JobRequestFixedId(base, path, jobId) == Request("GET", base, path, "j1")

\* fetch(`${base}/status/${jobId}`) and fetch(`${base}/result/${jobId}`):
\* no options, so the method is GET.
JobRequest(base, path, jobId) == Request("GET", base, path, jobId)

NoStatus == [status |-> None, progress |-> 0, message |-> "", result |-> None]

\* A parsed ProcessingStatus (part_000:19-25). Only a completed job carries
\* an inline result.
StatusResponses ==
    { [status |-> s, progress |-> p, message |-> m, result |-> r] :
        s \in {"pending", "processing", "completed", "failed"},
        p \in Progresses, m \in Messages, r \in Results \cup {None} }

BackendStatusResponses ==
    { s \in StatusResponses : s.result # None => s.status = "completed" }

NoHistory ==
    [ statusRequests |-> 0,      \* GET /status/{job_id} issued by this call
      resultRequests |-> 0,      \* GET /result/{job_id} issued by this call
      resultReqsForStatus |-> 0, \* ... of them since the last status request
      resultBody |-> None,       \* the body of the last result response
      received |-> 0,            \* status answers received and parsed
      callbacks |-> 0,           \* onProgress invocations
      lastCallback |-> <<>>,     \* the arguments of the last one
      nonTerminal |-> 0,         \* status responses neither completed nor failed
      retries |-> 0,             \* times the catch block went round again
      failedSeenAt |-> 0,        \* statusRequests when 'failed' was first seen
      thrownAt |-> None ]        \* the throw that ended the call

----------------------------------------------------------------------------
(* TranscriptService.pollForResults *)

maxAttempts == 120

\* while (attempts < maxAttempts)
LoopConditionOffByOne(att) == att <= maxAttempts

LoopCondition(att) == att < maxAttempts

\* A catch block that always goes round again.
ShouldRetryAlways == TRUE

\* if (attempts < 3): the catch block goes round again
ShouldRetry == attempts < 3

TimeoutError ==
    <<"Processing timeout. Please try again with a shorter audio file.">>

StatusCheckError(code) == <<"Status check failed: ", code>>

ResultFetchError(code) == <<"Result fetch failed: ", code>>

\* fetch() itself rejecting (no connection), or a body that is not JSON
NetworkError == <<"Failed to fetch">>

ProcessingFailedErrorBare(m) == <<m>>

ProcessingFailedError(m) == <<"Processing failed: ", m>>

\* if (onProgress) onProgress(status.progress, status.message), called on
\* every parsed status response before the status is looked at
CallsProgressIntermediateOnly(s) ==
    onProgress /\ s.status \notin {"completed", "failed"}

CallsProgress(s) == onProgress

\* if (status.result): the completed response carries the result inline
HasInlineResultNever(s) == FALSE

HasInlineResult(s) == s.result # None

\* The catch block (part_000:159-170), entered with error e thrown at `site`;
\* hh is the history up to the throw.
Catch(e, site, hh) ==
    IF ShouldRetry
    THEN /\ pollPc' = "delay2"
         /\ h' = [hh EXCEPT !.retries = @ + 1]
         /\ UNCHANGED <<pollResult, pollError>>
    ELSE /\ pollPc' = "thrown"
         /\ pollError' = e
         /\ h' = [hh EXCEPT !.thrownAt = site]
         /\ UNCHANGED pollResult

\* The top of the loop, reached with `att` attempts made and history hh:
\* the test passes and GET /status/{job_id} is issued, or it fails and the
\* throw after the loop is reached (part_000:173). Nothing is awaited between
\* the end of a delay and this. jobId is the argument of the call.
EnterLoop(att, hh, jobId) ==
    IF LoopCondition(att)
    THEN /\ pollPc' = "awaitStatus"
         /\ net' = JobRequest(API_BASE, "/status/", jobId)
         /\ h' = [hh EXCEPT !.statusRequests = @ + 1, !.resultReqsForStatus = 0]
         /\ UNCHANGED pollError
    ELSE /\ pollPc' = "thrown"
         /\ pollError' = TimeoutError
         /\ h' = [hh EXCEPT !.thrownAt = "timeout"]
         /\ UNCHANGED net

\* pollForResults is entered.
PollEnter ==
    /\ pollPc = "loop"
    /\ EnterLoop(attempts, h, run.jobId)
    /\ UNCHANGED <<attempts, onProgress, status, pollResult>>
    /\ UNCHANGED otherVars

\* The status request fails: fetch rejects, or the answer is not 2xx
\* (part_000:123-125). Both land in the catch block.
PollStatusFailed ==
    /\ pollPc = "awaitStatus"
    /\ \/ Catch(NetworkError, "statusNetwork", h)
       \/ \E code \in HttpErrors : Catch(StatusCheckError(code), "statusCheck", h)
    /\ UNCHANGED <<attempts, onProgress, status>>
    /\ UNCHANGED otherVars
    /\ UNCHANGED net

\* A status response s is parsed and acted on (part_000:127-156).
PollStatusOk(s) ==
    /\ pollPc = "awaitStatus"
    /\ status' = s
    /\ LET called == CallsProgress(s)
           h1 == [h EXCEPT
                    !.received = @ + 1,
                    !.callbacks = IF called THEN @ + 1 ELSE @,
                    !.lastCallback =
                        IF called THEN <<s.progress, s.message>> ELSE @,
                    !.resultReqsForStatus = 0,
                    !.nonTerminal =
                        IF s.status \notin {"completed", "failed"}
                        THEN @ + 1 ELSE @,
                    !.failedSeenAt =
                        IF s.status = "failed" /\ @ = 0
                        THEN h.statusRequests ELSE @]
       IN  CASE s.status = "completed" /\ HasInlineResult(s) ->
                  /\ pollPc' = "returned"
                  /\ pollResult' = s.result
                  /\ h' = h1
                  /\ UNCHANGED <<pollError, net>>
             [] s.status = "completed" /\ ~HasInlineResult(s) ->
                  /\ pollPc' = "awaitResult"
                  /\ h' = [h1 EXCEPT !.resultRequests = @ + 1,
                                     !.resultReqsForStatus = 1]
                  /\ net' = JobRequest(API_BASE, "/result/", run.jobId)
                  /\ UNCHANGED <<pollResult, pollError>>
             [] s.status = "failed" ->
                  /\ Catch(ProcessingFailedError(s.message), "failed", h1)
                  /\ UNCHANGED net
             [] OTHER ->
                  /\ pollPc' = "delay5"
                  /\ h' = h1
                  /\ UNCHANGED <<pollResult, pollError, net>>
    /\ UNCHANGED <<attempts, onProgress>>
    /\ UNCHANGED otherVars

\* GET /result/{job_id} answers 2xx with the result record (part_000:146).
PollResultOk(body) ==
    /\ pollPc = "awaitResult"
    /\ pollPc' = "returned"
    /\ pollResult' = body
    /\ h' = [h EXCEPT !.resultBody = body]
    /\ UNCHANGED <<attempts, onProgress, status, pollError>>
    /\ UNCHANGED otherVars
    /\ UNCHANGED net

\* The result request fails: its throw is inside the same try block
\* (part_000:142-144).
PollResultFailed ==
    /\ pollPc = "awaitResult"
    /\ \/ Catch(NetworkError, "resultNetwork", h)
       \/ \E code \in HttpErrors : Catch(ResultFetchError(code), "resultFetch", h)
    /\ UNCHANGED <<attempts, onProgress, status>>
    /\ UNCHANGED otherVars
    /\ UNCHANGED net

\* await this.delay(5000); attempts++. The iteration's `status` goes out of
\* scope.
PollDelay5 ==
    /\ pollPc = "delay5"
    /\ attempts' = attempts + 1
    /\ status' = NoStatus
    /\ EnterLoop(attempts + 1, h, run.jobId)
    /\ UNCHANGED <<onProgress, pollResult>>
    /\ UNCHANGED otherVars

\* await this.delay(2000); attempts++; continue
PollDelay2 ==
    /\ pollPc = "delay2"
    /\ attempts' = attempts + 1
    /\ status' = NoStatus
    /\ EnterLoop(attempts + 1, h, run.jobId)
    /\ UNCHANGED <<onProgress, pollResult>>
    /\ UNCHANGED otherVars

----------------------------------------------------------------------------
(* Files and the three uploaders (AudioUpload, ImageUpload, DocumentUpload) *)

Skills == {"audio", "image", "document"}

\* A File: its MIME type, its name (a sequence of characters), its size in
\* bytes.
NoFile == [type |-> None, name |-> <<>>, size |-> 0]

\* setError(null); null is not the empty string
Null == <<None>>

NoResult == [source |-> None, body |-> None, name |-> <<>>]

UpperCase ==
    <<"A", "B", "C", "D", "E", "F", "G", "H", "I", "J", "K", "L", "M",
      "N", "O", "P", "Q", "R", "S", "T", "U", "V", "W", "X", "Y", "Z">>

LowerCase ==
    <<"a", "b", "c", "d", "e", "f", "g", "h", "i", "j", "k", "l", "m",
      "n", "o", "p", "q", "r", "s", "t", "u", "v", "w", "x", "y", "z">>

LowerOf ==
    [c \in {UpperCase[k] : k \in DOMAIN UpperCase} |->
        LowerCase[CHOOSE k \in DOMAIN UpperCase : UpperCase[k] = c]]

\* String.prototype.toLowerCase, and the regular expressions' i flag
ToLowerCase(name) ==
    [i \in DOMAIN name |->
        IF name[i] \in DOMAIN LowerOf THEN LowerOf[name[i]] ELSE name[i]]

\* String.prototype.endsWith, and a regular expression anchored by $
EndsWith(name, suffix) ==
    /\ Len(name) >= Len(suffix)
    /\ SubSeq(name, Len(name) - Len(suffix) + 1, Len(name)) = suffix

\* const maxSize = 50 * 1024 * 1024
maxSize == 50 * 1024 * 1024

AudioValidTypes ==
    {"audio/mp3", "audio/wav", "audio/m4a", "audio/mpeg", "audio/ogg"}

ImageValidTypes ==
    {"image/jpeg", "image/jpg", "image/png", "image/gif", "image/bmp"}

DocumentValidTypes ==
    {"application/pdf", "application/msword",
     "application/vnd.openxmlformats-officedocument.wordprocessingml.document",
     "text/plain"}

\* /\.(mp3|wav|m4a|ogg)$/i
AudioExtensions ==
    {<<"m", "p", "3">>, <<"w", "a", "v">>, <<"m", "4", "a">>, <<"o", "g", "g">>}

\* /\.(jpg|jpeg|png|gif|bmp)$/i
ImageExtensions ==
    {<<"j", "p", "g">>, <<"j", "p", "e", "g">>, <<"p", "n", "g">>,
     <<"g", "i", "f">>, <<"b", "m", "p">>}

\* endsWith('.pdf') || endsWith('.doc') || endsWith('.docx') || endsWith('.txt')
DocumentExtensions ==
    {<<"p", "d", "f">>, <<"d", "o", "c">>, <<"d", "o", "c", "x">>,
     <<"t", "x", "t">>}

ValidTypes(kind) ==
    CASE kind = "audio" -> AudioValidTypes
      [] kind = "image" -> ImageValidTypes
      [] OTHER -> DocumentValidTypes

Extensions(kind) ==
    CASE kind = "audio" -> AudioExtensions
      [] kind = "image" -> ImageExtensions
      [] OTHER -> DocumentExtensions

\* file.name.match(/\.(...)$/i), or isValidExtension of DocumentUpload
IsValidExtension(kind, name) ==
    \E e \in Extensions(kind) : EndsWith(ToLowerCase(name), <<".">> \o e)

TypeErrorText(kind) ==
    CASE kind = "audio" ->
           <<"Please upload a valid audio file (MP3, WAV, M4A, OGG)">>
      [] kind = "image" ->
           <<"Please upload a valid image file (JPG, PNG, GIF, BMP)">>
      [] OTHER ->
           <<"Please upload a valid document file (PDF, DOC, DOCX, TXT)">>

SizeErrorText == <<"File size must be less than 50MB">>

\* if (!validTypes.includes(file.type) && !<the name has a valid extension>)
TypeCheckFailsOnEither(kind, f) ==
    f.type \notin ValidTypes(kind) \/ ~IsValidExtension(kind, f.name)

TypeCheckFails(kind, f) ==
    f.type \notin ValidTypes(kind) /\ ~IsValidExtension(kind, f.name)

\* if (file.size > maxSize)
SizeCheckFailsAtLimit(f) == f.size >= maxSize

SizeCheckFails(f) == f.size > maxSize

\* validateFile with the size check first.
ValidateFileSizeFirst(kind, f) ==
    IF SizeCheckFails(f)
    THEN [valid |-> FALSE, error |-> SizeErrorText]
    ELSE IF TypeCheckFails(kind, f)
         THEN [valid |-> FALSE, error |-> TypeErrorText(kind)]
         ELSE [valid |-> TRUE, error |-> Null]

\* validateFile: the value it returns and the error it sets
ValidateFile(kind, f) ==
    IF TypeCheckFails(kind, f)
    THEN [valid |-> FALSE, error |-> TypeErrorText(kind)]
    ELSE IF SizeCheckFails(f)
         THEN [valid |-> FALSE, error |-> SizeErrorText]
         ELSE [valid |-> TRUE, error |-> Null]

\* The parent's handleFileSelect: the file is kept, result and error are
\* cleared (DocumentSummarization also goes to file mode). ImageAnalysis
\* also starts reading a preview, which nothing below depends on.
HandleFileSelect(f) ==
    /\ file' = f
    /\ result' = NoResult
    /\ error' = Null
    /\ mode' = IF skill = "document" THEN "file" ELSE mode
    /\ UNCHANGED <<loading, progress, activeTab, url>>

\* The uploader's handleFile, from a drop or the file input: validateFile,
\* and onFileSelect when it answered true. DocumentUpload is rendered in
\* file mode only.
HandleFile(f) ==
    /\ skill = "document" => mode = "file"
    /\ LET v == ValidateFile(skill, f)
       IN  /\ upError' = v.error
           /\ IF v.valid
              THEN /\ HandleFileSelect(f)
                   /\ up' = [lastFile |-> f, valid |-> v.valid, called |-> TRUE]
              ELSE /\ UNCHANGED componentVars
                   /\ up' = [lastFile |-> f, valid |-> v.valid, called |-> FALSE]
    /\ UNCHANGED <<skill, env, diar, runPc, run>>
    /\ UNCHANGED pollVars
    /\ UNCHANGED net

----------------------------------------------------------------------------
(* Initial states *)

\* A processing run: the file (or URL) it was started on, and how it ended.
\* jobId is the id the submit answered (const jobId, gone when the run ends),
\* available what isBackendAvailable answered, diarized whether
\* DiarizationService.diarizeTranscript was called.
\* posts counts the submit POSTs of the run, seen is the status of the last
\* status answer processImage or processDocument parsed.
NoRun == [file |-> NoFile, url |-> "", cause |-> None, message |-> "",
          jobId |-> None, available |-> None, diarized |-> FALSE,
          posts |-> 0, seen |-> None]

InitIdlePoll ==
    /\ pollPc = "idle"
    /\ attempts = 0
    /\ onProgress = FALSE
    /\ status = NoStatus
    /\ pollResult = None
    /\ pollError = NoError
    /\ h = NoHistory

\* A component as mounted: nothing selected, nothing running.
InitComponentState(r, d) ==
    /\ diar = d
    /\ env = None
    /\ net = NoRequest
    /\ file = NoFile
    /\ upError = Null
    /\ up = [lastFile |-> NoFile, valid |-> FALSE, called |-> FALSE]
    /\ loading = FALSE
    /\ progress = 0
    /\ result = NoResult
    /\ error = Null
    /\ activeTab = 0
    /\ url = ""
    /\ mode = "file"
    /\ runPc = "idle"
    /\ run = r

InitComponentWith(r) == InitComponentState(r, NoDiarization)

InitComponent == InitComponentWith(NoRun)

----------------------------------------------------------------------------
(* pollForResults called on its own, with or without a progress callback *)

InitPoll ==
    /\ pollPc = "loop"
    /\ attempts = 0
    /\ onProgress \in BOOLEAN
    /\ status = NoStatus
    /\ pollResult = None
    /\ pollError = NoError
    /\ h = NoHistory
    /\ skill = "audio"
    /\ InitComponentWith([NoRun EXCEPT !.jobId = "j1"])

NextPoll ==
    \/ PollEnter
    \/ PollStatusFailed
    \/ \E s \in BackendStatusResponses : PollStatusOk(s)
    \/ \E body \in Results : PollResultOk(body)
    \/ PollResultFailed
    \/ PollDelay5
    \/ PollDelay2

SpecPoll == InitPoll /\ [][NextPoll]_vars

\* Every request and every delay of the poll completes.
LivePollSpec == SpecPoll /\ WF_vars(NextPoll)

----------------------------------------------------------------------------
(* The uploaders on their own: any sequence of files dropped or browsed *)

\* Per uploader: a listed MIME type, one of another family, and the empty
\* type a browser gives a file it does not know.
FileTypes(kind) ==
    CASE kind = "audio" -> {"audio/mpeg", "image/png", ""}
      [] kind = "image" -> {"image/png", "application/pdf", ""}
      [] OTHER -> {"application/pdf", "audio/mpeg", ""}

\* Per uploader: listed extensions in lower and upper case, a listed
\* extension that is not the last one, one with no dot before it, and an
\* extension that is not listed.
FileNames(kind) ==
    CASE kind = "audio" ->
           { <<"a", ".", "m", "p", "3">>,
             <<"A", ".", "O", "G", "G">>,
             <<"a", ".", "m", "p", "3", ".", "e", "x", "e">>,
             <<"m", "p", "3">>,
             <<"a", ".", "e", "x", "e">> }
      [] kind = "image" ->
           { <<"a", ".", "j", "p", "g">>,
             <<"A", ".", "P", "n", "g">>,
             <<"a", ".", "p", "n", "g", ".", "e", "x", "e">>,
             <<"p", "n", "g">>,
             <<"a", ".", "e", "x", "e">> }
      [] OTHER ->
           { <<"a", ".", "p", "d", "f">>,
             <<"A", ".", "D", "O", "C", "X">>,
             <<"a", ".", "d", "o", "c", ".", "e", "x", "e">>,
             <<"t", "x", "t">>,
             <<"a", ".", "e", "x", "e">> }

FileSizes == {1, maxSize, maxSize + 1}

Files(kind) ==
    { [type |-> t, name |-> n, size |-> z] :
        t \in FileTypes(kind), n \in FileNames(kind), z \in FileSizes }

InitUpload ==
    /\ skill \in Skills
    /\ InitComponent
    /\ InitIdlePoll

NextUpload == \E f \in Files(skill) : HandleFile(f)

SpecUpload == InitUpload /\ [][NextUpload]_vars

----------------------------------------------------------------------------
(* The skill components: what the user can do *)

\* Tab 0, which a new result is shown on, and another one.
Tabs == {0, 1}

Modes == {"file", "url"}

Urls == {"", "https://example.com/article"}

\* handleTabChange: the tabs are rendered only with a result.
HandleTabChange(t) ==
    /\ result # NoResult
    /\ activeTab' = t
    /\ UNCHANGED <<file, loading, progress, result, error, url, mode>>
    /\ UNCHANGED <<skill, env, diar, upError, up, runPc, run>>
    /\ UNCHANGED pollVars
    /\ UNCHANGED net

\* DocumentSummarization: onClick={() => setMode(...)}. Leaving file mode
\* unmounts DocumentUpload, and its error state with it.
SetMode(m) ==
    /\ skill = "document"
    /\ mode' = m
    /\ upError' = IF m = mode THEN upError ELSE Null
    /\ UNCHANGED <<file, loading, progress, result, error, activeTab, url>>
    /\ UNCHANGED <<skill, env, diar, up, runPc, run>>
    /\ UNCHANGED pollVars
    /\ UNCHANGED net

\* DocumentSummarization: onChange={(e) => setUrl(e.target.value)}, on the
\* text field of URL mode.
SetUrl(u) ==
    /\ skill = "document"
    /\ mode = "url"
    /\ url' = u
    /\ UNCHANGED <<file, loading, progress, result, error, activeTab, mode>>
    /\ UNCHANGED <<skill, env, diar, upError, up, runPc, run>>
    /\ UNCHANGED pollVars
    /\ UNCHANGED net

\* The button without disabled={loading}.
ButtonEnabledWhileLoading ==
    IF skill = "document"
    THEN (mode = "file" /\ file # NoFile) \/ (mode = "url" /\ url # "")
    ELSE file # NoFile

\* The process button is rendered, and not disabled={loading}.
ButtonEnabled ==
    /\ ~loading
    /\ IF skill = "document"
       THEN (mode = "file" /\ file # NoFile) \/ (mode = "url" /\ url # "")
       ELSE file # NoFile

\* setLoading(true); setProgress(0); setError(null)
BeginRun ==
    /\ loading' = TRUE
    /\ progress' = 0
    /\ error' = Null
    /\ UNCHANGED <<file, result, activeTab, url, mode>>

\* A catch block whose finally leaves loading and progress as they are.
FailRunKeepsLoading(e, cause, message) ==
    /\ error' = e
    /\ runPc' = "idle"
    /\ run' = [run EXCEPT !.cause = cause, !.message = message,
                           !.jobId = None, !.seen = None]
    /\ UNCHANGED <<file, result, activeTab, url, mode, loading, progress>>

\* catch (err) { setError(err.message) } finally { setLoading(false);
\* setProgress(0) }
FailRun(e, cause, message) ==
    /\ error' = e
    /\ loading' = FALSE
    /\ progress' = 0
    /\ runPc' = "idle"
    /\ run' = [run EXCEPT !.cause = cause, !.message = message,
                           !.jobId = None, !.seen = None]
    /\ UNCHANGED <<file, result, activeTab, url, mode>>

\* setResult(...); setActiveTab(0); finally { setLoading(false);
\* setProgress(0) }
FinishRun(source, body) ==
    /\ result' = [source |-> source, body |-> body,
                  name |-> IF run.url # "" THEN <<run.url>> ELSE run.file.name]
    /\ activeTab' = 0
    /\ loading' = FALSE
    /\ progress' = 0
    /\ runPc' = "idle"
    /\ run' = [run EXCEPT !.cause = "done", !.jobId = None, !.seen = None]
    /\ UNCHANGED <<file, error, url, mode>>

\* The call of pollForResults is over: its locals are gone.
DropPoll ==
    /\ pollPc' = "idle"
    /\ attempts' = 0
    /\ onProgress' = FALSE
    /\ status' = NoStatus
    /\ pollResult' = None
    /\ pollError' = NoError
    /\ h' = NoHistory

----------------------------------------------------------------------------
(* ConversationAnalysis.processAudio and TranscriptService.analyzeConversation *)

\* uploadFile: throw new Error(errorData.detail || `HTTP error! status: ...`)
UploadError(code) == <<"HTTP error! status: ", code>>

\* analyzeConversation's catch: whatever was thrown, throw
\* new Error('Failed to analyze conversation. Please try again.')
AnalyzeConversationError(e) ==
    <<"Failed to analyze conversation. Please try again.">>

\* The button is clicked: the run starts with the availability probe.
ProcessAudio ==
    /\ skill = "audio"
    /\ ButtonEnabled
    /\ BeginRun
    /\ runPc' = "probe"
    /\ run' = [NoRun EXCEPT !.file = file]
    /\ UNCHANGED <<skill, env, diar, upError, up>>
    /\ UNCHANGED pollVars
    /\ net' = Request("GET", API_BASE, "/", None)

\* The real backend whatever the probe answered.
UsesBackendAlways(backendAvailable) == TRUE

\* if (backendAvailable): the real backend, else the mock processing
UsesBackend(backendAvailable) == backendAvailable

\* isBackendAvailable answers: GET / was 2xx, or not (or timed out).
AudioProbeDone(available) ==
    /\ skill = "audio"
    /\ runPc = "probe"
    /\ IF UsesBackend(available)
       THEN /\ progress' = 10
            /\ runPc' = "upload"
            /\ net' = Request("POST", API_BASE, "/upload-audio", None)
       ELSE /\ progress' = 30
            /\ runPc' = "mockTranscribe"
            /\ UNCHANGED net
    /\ run' = [run EXCEPT !.available = IF available THEN "yes" ELSE "no",
                           !.posts = IF UsesBackend(available) THEN @ + 1 ELSE @]
    /\ UNCHANGED <<file, loading, result, error, activeTab, url, mode>>
    /\ UNCHANGED <<skill, env, diar, upError, up>>
    /\ UNCHANGED pollVars

\* POST /upload-audio answers 2xx with a job id: pollForResults(jobId) is
\* called, without a progress callback, and issues its first status request.
AudioUploadOk(id) ==
    /\ skill = "audio"
    /\ runPc = "upload"
    /\ runPc' = "poll"
    /\ attempts' = 0
    /\ onProgress' = FALSE
    /\ status' = NoStatus
    /\ pollResult' = None
    /\ EnterLoop(0, NoHistory, id)
    /\ run' = [run EXCEPT !.jobId = id]
    /\ UNCHANGED componentVars
    /\ UNCHANGED <<skill, env, diar, upError, up>>

\* POST /upload-audio fails (not 2xx, or no answer): uploadFile throws,
\* analyzeConversation rethrows, processAudio shows the message.
AudioUploadFailed ==
    /\ skill = "audio"
    /\ runPc = "upload"
    /\ \/ \E code \in HttpErrors :
            FailRun(AnalyzeConversationError(UploadError(code)), "upload", "")
       \/ FailRun(AnalyzeConversationError(NetworkError), "uploadNetwork", "")
    /\ UNCHANGED <<skill, env, diar, upError, up>>
    /\ UNCHANGED pollVars
    /\ UNCHANGED net

\* pollForResults returned: the result is converted and shown.
AudioPollReturned ==
    /\ skill = "audio"
    /\ runPc = "poll"
    /\ pollPc = "returned"
    /\ FinishRun("backend", pollResult)
    /\ DropPoll
    /\ UNCHANGED <<skill, env, diar, upError, up>>
    /\ UNCHANGED net

\* pollForResults threw: analyzeConversation rethrows, processAudio shows
\* the message.
AudioPollThrown ==
    /\ skill = "audio"
    /\ runPc = "poll"
    /\ pollPc = "thrown"
    /\ FailRun(AnalyzeConversationError(pollError), h.thrownAt, status.message)
    /\ DropPoll
    /\ UNCHANGED <<skill, env, diar, upError, up>>
    /\ UNCHANGED net

\* mockTranscribeAudio is done (2 s): diarizeTranscript is called.
AudioMockTranscribed ==
    /\ skill = "audio"
    /\ runPc = "mockTranscribe"
    /\ progress' = 70
    /\ runPc' = "mockDiarize"
    /\ run' = [run EXCEPT !.diarized = TRUE]
    /\ UNCHANGED <<file, loading, result, error, activeTab, url, mode>>
    /\ UNCHANGED <<skill, env, diar, upError, up>>
    /\ UNCHANGED pollVars
    /\ UNCHANGED net

\* diarizeTranscript is done (1.5 s): generateSummary, and the mock result
\* is shown.
AudioMockDiarized ==
    /\ skill = "audio"
    /\ runPc = "mockDiarize"
    /\ FinishRun("mock", "mock")
    /\ UNCHANGED <<skill, env, diar, upError, up>>
    /\ UNCHANGED pollVars
    /\ UNCHANGED net

----------------------------------------------------------------------------
(* ImageAnalysis.processImage and DocumentSummarization.processDocument *)

\* throw new Error('Failed to upload image') and its two counterparts
SubmitErrorText ==
    CASE skill = "image" -> <<"Failed to upload image">>
      [] run.url # "" -> <<"Failed to process URL">>
      [] OTHER -> <<"Failed to upload document">>

\* The message behind the prefix pollForResults gives it.
FailedStatusErrorTextPrefixed(s) == <<"Processing failed: ", s.message>>

\* throw new Error(statusData.message); setError(err.message)
FailedStatusErrorText(s) == <<s.message>>

ProcessImage ==
    /\ skill = "image"
    /\ ButtonEnabled
    /\ BeginRun
    /\ runPc' = "upload"
    /\ run' = [NoRun EXCEPT !.file = file, !.posts = 1]
    /\ UNCHANGED <<skill, env, diar, upError, up>>
    /\ UNCHANGED pollVars
    /\ net' = Request("POST", DefaultBase, "/upload-image", None)

\* if (mode === 'file' && documentFile) the file is uploaded, else the URL
\* is posted.
ProcessDocument ==
    /\ skill = "document"
    /\ ButtonEnabled
    /\ file # NoFile \/ url # ""
    /\ BeginRun
    /\ runPc' = "upload"
    /\ run' = IF mode = "file" /\ file # NoFile
              THEN [NoRun EXCEPT !.file = file, !.posts = 1]
              ELSE [NoRun EXCEPT !.url = url, !.posts = 1]
    /\ UNCHANGED <<skill, env, diar, upError, up>>
    /\ UNCHANGED pollVars
    /\ net' = Request("POST", DefaultBase,
                    IF mode = "file" /\ file # NoFile
                    THEN "/upload-document" ELSE "/summarize-url", None)

\* The submit answers 2xx with a job id: the first status request goes out.
SubmitOk(id) ==
    /\ skill \in {"image", "document"}
    /\ runPc = "upload"
    /\ runPc' = "awaitStatus"
    /\ run' = [run EXCEPT !.jobId = id]
    /\ net' = JobRequest(DefaultBase, "/status/", id)
    /\ UNCHANGED componentVars
    /\ UNCHANGED <<skill, env, diar, upError, up>>
    /\ UNCHANGED pollVars

\* A failed submit that is not looked at: the loop polls the job id of an
\* answer that has none.
SubmitFailedIgnored ==
    /\ skill \in {"image", "document"}
    /\ runPc = "upload"
    /\ runPc' = "awaitStatus"
    /\ net' = JobRequest(DefaultBase, "/status/", None)
    /\ UNCHANGED componentVars
    /\ UNCHANGED <<skill, env, diar, upError, up, run>>
    /\ UNCHANGED pollVars

\* The submit fails: not 2xx, or no answer.
SubmitFailed ==
    /\ skill \in {"image", "document"}
    /\ runPc = "upload"
    /\ \/ FailRun(SubmitErrorText, "upload", "")
       \/ FailRun(NetworkError, "uploadNetwork", "")
    /\ UNCHANGED <<skill, env, diar, upError, up>>
    /\ UNCHANGED pollVars
    /\ UNCHANGED net

\* while (true): a status answer s is parsed (no check of its HTTP code).
LoopStatusOk(s) ==
    /\ skill \in {"image", "document"}
    /\ runPc = "awaitStatus"
    /\ CASE s.status = "completed" ->
              /\ progress' = s.progress
              /\ runPc' = "awaitResult"
              /\ net' = JobRequest(DefaultBase, "/result/", run.jobId)
              /\ UNCHANGED <<file, loading, result, error, activeTab, url, mode>>
              /\ run' = [run EXCEPT !.seen = s.status]
         [] s.status = "failed" ->
              /\ FailRun(FailedStatusErrorText(s), "failed", s.message)
              /\ UNCHANGED net
         [] OTHER ->
              /\ progress' = s.progress
              /\ runPc' = "delay"
              /\ UNCHANGED net
              /\ UNCHANGED <<file, loading, result, error, activeTab, url, mode>>
              /\ run' = [run EXCEPT !.seen = s.status]
    /\ UNCHANGED <<skill, env, diar, upError, up>>
    /\ UNCHANGED pollVars

\* The status request gets no answer: fetch rejects.
LoopStatusFailed ==
    /\ skill \in {"image", "document"}
    /\ runPc = "awaitStatus"
    /\ FailRun(NetworkError, "statusNetwork", "")
    /\ UNCHANGED <<skill, env, diar, upError, up>>
    /\ UNCHANGED pollVars
    /\ UNCHANGED net

\* await new Promise(resolve => setTimeout(resolve, 2000)), and round again
LoopDelay ==
    /\ skill \in {"image", "document"}
    /\ runPc = "delay"
    /\ runPc' = "awaitStatus"
    /\ UNCHANGED componentVars
    /\ UNCHANGED <<skill, env, diar, upError, up, run>>
    /\ UNCHANGED pollVars
    /\ net' = JobRequest(DefaultBase, "/status/", run.jobId)

\* GET /result/{job_id} answers: setResult, setActiveTab(0), break.
LoopResultOk(body) ==
    /\ skill \in {"image", "document"}
    /\ runPc = "awaitResult"
    /\ FinishRun("backend", body)
    /\ UNCHANGED <<skill, env, diar, upError, up>>
    /\ UNCHANGED pollVars
    /\ UNCHANGED net

\* The result request gets no answer: fetch rejects.
LoopResultFailed ==
    /\ skill \in {"image", "document"}
    /\ runPc = "awaitResult"
    /\ FailRun(NetworkError, "resultNetwork", "")
    /\ UNCHANGED <<skill, env, diar, upError, up>>
    /\ UNCHANGED pollVars
    /\ UNCHANGED net

----------------------------------------------------------------------------
(* The three components, under any user and any backend *)

\* Two files the uploader of the component accepts.
SelectableFiles(kind) ==
    CASE kind = "audio" ->
           { [type |-> "audio/mpeg", name |-> <<"a", ".", "m", "p", "3">>,
              size |-> 1],
             [type |-> "audio/mpeg", name |-> <<"A", ".", "O", "G", "G">>,
              size |-> 1] }
      [] kind = "image" ->
           { [type |-> "image/png", name |-> <<"a", ".", "j", "p", "g">>,
              size |-> 1],
             [type |-> "image/png", name |-> <<"A", ".", "P", "n", "g">>,
              size |-> 1] }
      [] OTHER ->
           { [type |-> "application/pdf", name |-> <<"a", ".", "p", "d", "f">>,
              size |-> 1],
             [type |-> "application/pdf",
              name |-> <<"A", ".", "D", "O", "C", "X">>, size |-> 1] }

\* The messages on the status responses a component gets: a text, or none
\* (an empty message; a missing one makes the same Error message, '').
ComponentMessages == {"bad audio", ""}

\* What the backend answers to a status request of a component.
ComponentStatusResponses ==
    { s \in { [status |-> st, progress |-> 40, message |-> m, result |-> r] :
                st \in {"processing", "completed", "failed"},
                m \in ComponentMessages,
                r \in {None, "r1"} } :
        s.result # None => s.status = "completed" }

ComponentResults == {"r1"}

\* The job id the backend answers a submit of a component with.
ComponentJobIds == {"j1"}

Init ==
    /\ skill \in Skills
    /\ InitComponent
    /\ InitIdlePoll

\* What the user does.
UserStep ==
    \/ \E f \in SelectableFiles(skill) : HandleFile(f)
    \/ \E t \in Tabs : HandleTabChange(t)
    \/ \E m \in Modes : SetMode(m)
    \/ \E u \in Urls : SetUrl(u)
    \/ ProcessAudio
    \/ ProcessImage
    \/ ProcessDocument

\* What a run in flight does next, when the answer or the timer it waits
\* for arrives.
RunStep ==
    \/ \E available \in BOOLEAN : AudioProbeDone(available)
    \/ \E id \in ComponentJobIds : AudioUploadOk(id)
    \/ AudioUploadFailed
    \/ PollStatusFailed
    \/ \E s \in ComponentStatusResponses : PollStatusOk(s)
    \/ \E body \in ComponentResults : PollResultOk(body)
    \/ PollResultFailed
    \/ PollDelay5
    \/ PollDelay2
    \/ AudioPollReturned
    \/ AudioPollThrown
    \/ AudioMockTranscribed
    \/ AudioMockDiarized
    \/ \E id \in ComponentJobIds : SubmitOk(id)
    \/ SubmitFailed
    \/ \E s \in ComponentStatusResponses : LoopStatusOk(s)
    \/ LoopStatusFailed
    \/ LoopDelay
    \/ \E body \in ComponentResults : LoopResultOk(body)
    \/ LoopResultFailed

Next == UserStep \/ RunStep

Spec == Init /\ [][Next]_vars

\* The browser's event loop runs every continuation whose promise settled
\* and every timer that fired, and every request is answered or fails.
LiveSpec == Spec /\ WF_vars(RunStep)

----------------------------------------------------------------------------
(* The uploaders inside their components: files dropped before, during and
   after runs *)

\* Per uploader: files with a listed or an empty MIME type, a listed
\* extension (in lower or upper case) or another one, small or oversized.
ReselectFiles(kind) ==
    { f \in Files(kind) :
        /\ f.type \in ValidTypes(kind) \cup {""}
        /\ f.name[1] \in {"a", "A"}
        /\ Len(f.name) <= 6
        /\ f.size # maxSize }

\* The status answers of the runs: completed at once, or failed.
ReselectStatusResponses ==
    { s \in ComponentStatusResponses :
        s.status # "processing" /\ s.message = "bad audio" /\ s.result = None }

InitReselect ==
    /\ skill \in Skills
    /\ InitComponent
    /\ InitIdlePoll

\* The user drops files and clicks the button; the runs are short: the audio
\* backend is down or fails the upload, the image and document jobs are
\* answered at the first status request.
NextReselect ==
    \/ \E f \in ReselectFiles(skill) : HandleFile(f)
    \/ ProcessAudio
    \/ ProcessImage
    \/ ProcessDocument
    \/ \E available \in BOOLEAN : AudioProbeDone(available)
    \/ AudioUploadFailed
    \/ AudioMockTranscribed
    \/ AudioMockDiarized
    \/ \E id \in ComponentJobIds : SubmitOk(id)
    \/ SubmitFailed
    \/ \E s \in ReselectStatusResponses : LoopStatusOk(s)
    \/ \E body \in ComponentResults : LoopResultOk(body)

SpecReselect == InitReselect /\ [][NextReselect]_vars

----------------------------------------------------------------------------
(* The three components with the page built for either base URL and a backend
   that hands out different job ids: one file per component, one message *)

RequestFiles(kind) == { f \in SelectableFiles(kind) : f.name[1] = "a" }

RequestStatusResponses ==
    { s \in ComponentStatusResponses : s.message = "bad audio" }

InitRequests ==
    /\ skill \in Skills
    /\ diar = NoDiarization
    /\ InitIdlePoll
    /\ env \in {None, OtherBase}
    /\ net = NoRequest
    /\ file = NoFile
    /\ upError = Null
    /\ up = [lastFile |-> NoFile, valid |-> FALSE, called |-> FALSE]
    /\ loading = FALSE
    /\ progress = 0
    /\ result = NoResult
    /\ error = Null
    /\ activeTab = 0
    /\ url = ""
    /\ mode = "file"
    /\ runPc = "idle"
    /\ run = NoRun

NextRequests ==
    \/ \E f \in RequestFiles(skill) : HandleFile(f)
    \/ \E m \in Modes : SetMode(m)
    \/ \E u \in Urls : SetUrl(u)
    \/ ProcessAudio
    \/ ProcessImage
    \/ ProcessDocument
    \/ \E available \in BOOLEAN : AudioProbeDone(available)
    \/ \E id \in JobIds : AudioUploadOk(id)
    \/ AudioUploadFailed
    \/ PollStatusFailed
    \/ \E s \in RequestStatusResponses : PollStatusOk(s)
    \/ \E body \in ComponentResults : PollResultOk(body)
    \/ PollResultFailed
    \/ PollDelay5
    \/ PollDelay2
    \/ AudioPollReturned
    \/ AudioPollThrown
    \/ AudioMockTranscribed
    \/ AudioMockDiarized
    \/ \E id \in JobIds : SubmitOk(id)
    \/ SubmitFailed
    \/ \E s \in RequestStatusResponses : LoopStatusOk(s)
    \/ LoopStatusFailed
    \/ LoopDelay
    \/ \E body \in ComponentResults : LoopResultOk(body)
    \/ LoopResultFailed

SpecRequests == InitRequests /\ [][NextRequests]_vars

----------------------------------------------------------------------------
(* DiarizationService.diarizeTranscript. A transcript is a sequence of
   pieces: single characters, the word "Speaker " and whole phrases. *)

\* The characters \s matches.
Whitespace == {" ", "\n"}

\* The characters \d matches.
Digits == {"1", "2", "3"}

\* The phrases of customerServicePatterns and customerPatterns, in lower
\* case (the patterns carry the i flag).
customerServicePatterns ==
    { "thank you for calling", "how can i help", "let me check", "i can see",
      "i'll make sure", "is there anything else" }

customerPatterns ==
    { "i'm having an issue", "i placed an order", "can you tell me",
      "that's very generous", "thank you so much",
      "no, that covers everything" }

\* A phrase as it is written: the patterns without the i flag.
PhraseAsWritten(piece) == piece

\* A phrase in lower case.
PhraseLower(piece) ==
    CASE piece = "How can I help" -> "how can i help"
      [] piece = "CAN YOU TELL ME" -> "can you tell me"
      [] OTHER -> piece

\* pattern.test(text) for some pattern of the list
SomePatternMatches(patterns, text) ==
    \E i \in DOMAIN text : PhraseLower(text[i]) \in patterns

\* The last position of the run of pieces of `set` that starts at `from`
\* (from - 1 when there is none).
RunEnd(text, from, set) ==
    CHOOSE q \in (from - 1)..Len(text) :
        /\ \A j \in from..q : text[j] \in set
        /\ q = Len(text) \/ text[q + 1] \notin set

\* The last position of the run of pieces other than a line break.
LineEnd(text, from) ==
    CHOOSE q \in (from - 1)..Len(text) :
        /\ \A j \in from..q : text[j] # "\n"
        /\ q = Len(text) \/ text[q + 1] = "\n"

\* transcript.split('\n\n')
RECURSIVE Split(_)
Split(t) ==
    LET hits == { i \in 1..(Len(t) - 1) : t[i] = "\n" /\ t[i + 1] = "\n" }
    IN  IF hits = {}
        THEN <<t>>
        ELSE LET i == CHOOSE k \in hits : \A j \in hits : k <= j
             IN  <<SubSeq(t, 1, i - 1)>> \o Split(SubSeq(t, i + 2, Len(t)))

\* line.trim()
Trim(t) ==
    LET keep == { i \in 1..Len(t) : t[i] \notin Whitespace }
    IN  IF keep = {}
        THEN <<>>
        ELSE SubSeq(t, CHOOSE a \in keep : \A b \in keep : a <= b,
                       CHOOSE a \in keep : \A b \in keep : a >= b)

\* A filter that keeps every line.
NonEmptyLineAlways(line) == TRUE

\* line => line.trim().length > 0
NonEmptyLine(line) == Len(Trim(line)) > 0

parseTranscriptSegments(transcript) ==
    LET lines == SelectSeq(Split(transcript), NonEmptyLine)
    IN  [ i \in 1..Len(lines) |-> [text |-> Trim(lines[i]), index |-> i - 1] ]

\* text.match(/^(Speaker \d+):\s*(.+)/): the label is "Speaker ", digits and
\* a colon; \s* takes the whitespace after it, line breaks included, and gives
\* back what (.+) needs; (.+) takes at least one character and stops at a
\* line break.
SpeakerMatch(text) ==
    IF Len(text) < 3 \/ text[1] # "Speaker " \/ text[2] \notin Digits
    THEN [matched |-> FALSE, speaker |-> <<>>, rest |-> <<>>]
    ELSE LET digitsEnd == RunEnd(text, 2, Digits)
             colon == digitsEnd + 1
             wsEnd == RunEnd(text, colon + 1, Whitespace)
             starts == { r \in (colon + 1)..(wsEnd + 1) :
                           r <= Len(text) /\ text[r] # "\n" }
         IN  IF colon > Len(text) \/ text[colon] # ":" \/ starts = {}
             THEN [matched |-> FALSE, speaker |-> <<>>, rest |-> <<>>]
             ELSE LET start == CHOOSE a \in starts : \A b \in starts : a >= b
                  IN  [ matched |-> TRUE,
                        speaker |-> SubSeq(text, 1, digitsEnd),
                        rest |-> SubSeq(text, start, LineEnd(text, start)) ]

\* Every segment without a clear pattern is Speaker 1.
AlternateSpeakerNever(index) == <<"Speaker ", "1">>

\* index % 2 === 0 ? 'Speaker 1' : 'Speaker 2'
AlternateSpeaker(index) ==
    IF index % 2 = 0 THEN <<"Speaker ", "1">> ELSE <<"Speaker ", "2">>

determineSpeaker(text, index) ==
    LET speakerMatch == SpeakerMatch(text)
    IN  IF speakerMatch.matched
        THEN [speaker |-> speakerMatch.speaker,
              cleanedText |-> speakerMatch.rest]
        ELSE [speaker |->
                 CASE SomePatternMatches(customerServicePatterns, text) ->
                        <<"Speaker ", "1">>
                   [] SomePatternMatches(customerPatterns, text) ->
                        <<"Speaker ", "2">>
                   [] OTHER -> AlternateSpeaker(index),
              cleanedText |-> text]

\* new Date('2024-01-01T10:00:00'): the second of the day of the base time.
baseTime == 10 * 3600

\* Average 15 seconds per segment
segmentDuration == 15

\* The seconds of a day: a Date past midnight shows the next day's time.
SecondsPerDay == 24 * 3600

\* A number below ten as a character.
DigitChar(n) ==
    CASE n = 0 -> "0" [] n = 1 -> "1" [] n = 2 -> "2" [] n = 3 -> "3"
      [] n = 4 -> "4" [] n = 5 -> "5" [] n = 6 -> "6" [] n = 7 -> "7"
      [] n = 8 -> "8" [] n = 9 -> "9"

\* A field written as it is, without a leading zero ('numeric').
Numeric(n) ==
    IF n < 10 THEN <<DigitChar(n)>>
    ELSE <<DigitChar(n \div 10), DigitChar(n % 10)>>

\* '2-digit'
TwoDigit(n) == <<DigitChar(n \div 10), DigitChar(n % 10)>>

\* hour12: false: the hour of the day in the engine's hour cycle.
HourField(hour) == IF hour = 0 /\ diar.hourCycle = "h24" THEN 24 ELSE hour

\* baseTime plus index * segmentDuration seconds, as
\* toLocaleTimeString('en-US', {hour12: false, all fields 2-digit}) writes it
generateTimestamp(index) ==
    LET second == (baseTime + index * segmentDuration) % SecondsPerDay
    IN  TwoDigit(HourField(second \div 3600)) \o <<":">>
          \o TwoDigit((second \div 60) % 60) \o <<":">>
          \o TwoDigit(second % 60)

identifySpeakers(segments) ==
    [ i \in 1..Len(segments) |->
        LET speakerInfo == determineSpeaker(segments[i].text, segments[i].index)
        IN  [speaker |-> speakerInfo.speaker,
             text |-> speakerInfo.cleanedText,
             timestamp |-> generateTimestamp(segments[i].index)] ]

\* diarizeTranscript(transcript) is called: it awaits its delay.
DiarizeTranscript(transcript) ==
    /\ diar.pc = "idle"
    /\ diar' = [diar EXCEPT !.pc = "delay", !.transcript = transcript,
                             !.segments = <<>>, !.result = <<>>]
    /\ UNCHANGED <<skill, env, file, upError, up, loading, progress, result,
                   error, activeTab, url, mode, runPc, run, net>>
    /\ UNCHANGED pollVars

\* The delay is over: the segments are parsed, the speakers identified and
\* the result returned.
DiarizeDelayDone ==
    /\ diar.pc = "delay"
    /\ LET segments == parseTranscriptSegments(diar.transcript)
       IN  diar' = [diar EXCEPT !.pc = "returned",
                                !.segments = segments,
                                !.result = identifySpeakers(segments)]
    /\ UNCHANGED <<skill, env, file, upError, up, loading, progress, result,
                   error, activeTab, url, mode, runPc, run, net>>
    /\ UNCHANGED pollVars

\* The paragraphs transcripts are made of.
SegmentTexts ==
    { <<"x">>,
      <<" ", "x", " ">>,
      <<" ">>,
      <<"Speaker ", "1", ":", " ", "x">>,
      <<"Speaker ", "2", ":", "x", " ", "y">>,
      <<"Speaker ", "3", ":", " ", "x">>,
      <<"Speaker ", "1", ":", " ", "x", "\n", "y">>,
      <<"Speaker ", "2", ":", "\n", "x">>,
      <<"Speaker ", "2", ":">>,
      <<"x", " ", "Speaker ", "1", ":", " ", "y">>,
      <<"How can I help">>,
      <<"x", " ", "CAN YOU TELL ME">>,
      <<"CAN YOU TELL ME", " ", "How can I help">> }

\* The most paragraphs in a transcript.
MaxSegments == 3

\* paragraphs.join('\n\n')
RECURSIVE Join(_)
Join(paragraphs) ==
    IF Len(paragraphs) = 0 THEN <<>>
    ELSE IF Len(paragraphs) = 1 THEN paragraphs[1]
    ELSE paragraphs[1] \o <<"\n", "\n">> \o Join(Tail(paragraphs))

Transcripts ==
    { Join(paragraphs) :
        paragraphs \in UNION { [1..n -> SegmentTexts] : n \in 0..MaxSegments } }

InitDiarize ==
    /\ skill = "audio"
    /\ InitIdlePoll
    /\ InitComponent

NextDiarize ==
    \/ \E transcript \in Transcripts : DiarizeTranscript(transcript)
    \/ DiarizeDelayDone

SpecDiarize == InitDiarize /\ [][NextDiarize]_vars

----------------------------------------------------------------------------
(* identifySpeakers on two neighbouring segments of a long transcript *)

\* The greatest position of the first of the two segments: late enough for
\* the timestamps to pass midnight (position 3360).
MaxIndex == 3362

\* The texts of the two segments: plain, labelled, and with a phrase.
NeighbourTexts ==
    { <<"x">>, <<"Speaker ", "2", ":", " ", "x">>, <<"How can I help">> }

\* What parseTranscriptSegments gives for the paragraphs at positions index
\* and index + 1.
Neighbours(first, second, index) ==
    << [text |-> first, index |-> index],
       [text |-> second, index |-> index + 1] >>

\* const diarizedSegments = this.identifySpeakers(segments); return
IdentifySpeakers ==
    /\ diar.pc = "parsed"
    /\ diar' = [diar EXCEPT !.pc = "returned",
                            !.result = identifySpeakers(diar.segments)]
    /\ UNCHANGED <<skill, env, file, upError, up, loading, progress, result,
                   error, activeTab, url, mode, runPc, run, net>>
    /\ UNCHANGED pollVars

InitTimestamp ==
    /\ skill = "audio"
    /\ InitIdlePoll
    /\ \E first \in NeighbourTexts, second \in NeighbourTexts,
          index \in 0..MaxIndex, hourCycle \in HourCycles :
          InitComponentState(NoRun,
              [NoDiarization EXCEPT !.pc = "parsed",
                                    !.segments = Neighbours(first, second, index),
                                    !.hourCycle = hourCycle])

NextTimestamp == IdentifySpeakers

SpecTimestamp == InitTimestamp /\ [][NextTimestamp]_vars

----------------------------------------------------------------------------
(* Properties of pollForResults, checked under SpecPoll *)

\* Every status request issued so far was answered, and with a status that is
\* neither completed nor failed.
AllNonTerminal == h.nonTerminal = h.statusRequests

\* C1: when the backend answers every status request with a non-terminal
\* status, the call ends only by the timeout error, after exactly 120 status
\* requests; it never issues a 121st status request nor any result request.
C1_TimeoutAfter120Requests ==
    /\ (AllNonTerminal
          \/ (pollPc = "awaitStatus" /\ h.nonTerminal = h.statusRequests - 1)) =>
          /\ h.statusRequests <= 120
          /\ h.resultRequests = 0
          /\ pollPc # "returned"
    /\ (AllNonTerminal /\ pollPc = "thrown") =>
          /\ h.statusRequests = 120
          /\ h.thrownAt = "timeout"
          /\ pollError = TimeoutError
    /\ (AllNonTerminal /\ h.statusRequests = 120 /\ pollPc = "delay5") =>
          /\ ENABLED (PollDelay5 /\ pollPc' = "thrown")
          /\ ~ENABLED (PollDelay5 /\ pollPc' # "thrown")

C1_Witness ==
    /\ pollPc = "thrown"
    /\ AllNonTerminal
    /\ h.statusRequests = 120
    /\ pollError = TimeoutError

\* C2 as stated: when the call fails on a status response with status
\* 'failed' and message m, the error's message is exactly m.
C2_FailedErrorIsExactlyMessage ==
    (pollPc = "thrown" /\ status.status = "failed") =>
        pollError = <<status.message>>

\* C2 as amended: when the call fails on a status response with status
\* 'failed' and message m, the error's message is "Processing failed: "
\* followed by exactly m, and no other throw produces that text.
C2_FailedErrorCarriesMessage ==
    /\ (pollPc = "thrown" /\ status.status = "failed") =>
          /\ pollError = <<"Processing failed: ", status.message>>
          /\ h.thrownAt = "failed"
    /\ (pollPc = "thrown" /\ h.thrownAt = "failed") =>
          status.status = "failed"

C2_Witness ==
    /\ pollPc = "thrown"
    /\ status.status = "failed"
    /\ status.message = "bad audio"
    /\ pollError = <<"Processing failed: ", "bad audio">>

\* C3: a status response with status 'failed' is terminal: after it the call
\* issues no further status request and never returns a result.
C3_FailedIsNeverRetried ==
    h.failedSeenAt > 0 =>
        /\ h.statusRequests = h.failedSeenAt
        /\ pollPc # "returned"

\* The call saw n non-terminal responses and then one completed response,
\* with no error on the way, and has returned.
CleanCompletedRun ==
    /\ onProgress
    /\ pollPc = "returned"
    /\ h.retries = 0

\* C4 as stated: with a callback supplied, n non-terminal responses followed
\* by 'completed' give exactly n callbacks and n+1 status requests.
C4_CallbacksEqualNonTerminal ==
    CleanCompletedRun =>
        /\ h.callbacks = h.nonTerminal
        /\ h.statusRequests = h.nonTerminal + 1

\* C4 as amended: with a callback supplied, n non-terminal responses followed
\* by 'completed' give exactly n+1 callbacks (the completed response is
\* relayed too) and exactly n+1 status requests, none after 'completed'.
C4_CallbacksPerResponse ==
    CleanCompletedRun =>
        /\ h.callbacks = h.nonTerminal + 1
        /\ h.statusRequests = h.nonTerminal + 1
        /\ status.status = "completed"
        /\ ~ENABLED NextPoll

C4_Witness ==
    /\ CleanCompletedRun
    /\ h.nonTerminal = 2
    /\ h.callbacks = 3
    /\ h.statusRequests = 3

\* C5: a failed status request is propagated only after 3 retries have been
\* made in that call.
C5_PropagatedOnlyAfterThreeRetries ==
    (pollPc = "thrown" /\ h.thrownAt \in {"statusNetwork", "statusCheck"}) =>
        h.retries = 3

\* C7 as stated: after a completed response without an inline result, one
\* result request is made and its body is returned.
C7_ResultBodyAlwaysReturned ==
    (status.status = "completed" /\ status.result = None
        /\ pollPc # "awaitResult") =>
        /\ pollPc = "returned"
        /\ pollResult = h.resultBody
        /\ h.resultRequests = 1

\* C7 as amended: a completed response with an inline result makes the call
\* return that result with no result request; one without makes exactly one
\* result request for that response, and the call returns only that
\* request's body (when the request fails, nothing is returned for it).
C7_CompletedResult ==
    /\ pollPc = "returned" =>
          /\ status.status = "completed"
          /\ IF status.result # None
             THEN pollResult = status.result /\ h.resultReqsForStatus = 0
             ELSE /\ pollResult = h.resultBody
                  /\ pollResult \in Results
                  /\ h.resultReqsForStatus = 1
    /\ (status.status = "completed" /\ status.result # None) =>
          pollPc = "returned"
    /\ (status.status = "completed" /\ status.result = None) =>
          h.resultReqsForStatus = 1
    /\ h.resultReqsForStatus > 0 =>
          (status.status = "completed" /\ status.result = None)
    /\ pollPc = "awaitResult" => h.resultReqsForStatus = 1

C7_Witness ==
    /\ pollPc = "returned"
    /\ status.result = None
    /\ h.resultRequests = 1
    /\ pollResult = "r2"

----------------------------------------------------------------------------
(* Properties of the uploaders, checked under SpecUpload *)

\* The characters after the last dot of a name, in lower case (none: <<>>).
ExtensionOf(name) ==
    LET dots == { i \in DOMAIN name : name[i] = "." }
    IN  IF dots = {} THEN <<>>
        ELSE LET last == CHOOSE i \in dots : \A j \in dots : j <= i
             IN  ToLowerCase(SubSeq(name, last + 1, Len(name)))

HasListedExtension(kind, name) ==
    \E i \in DOMAIN name : name[i] = "." /\ ExtensionOf(name) \in Extensions(kind)

HasListedType(kind, f) == f.type \in ValidTypes(kind)

\* C8: in each uploader a file larger than 50*1024*1024 bytes makes
\* validateFile answer false and set an error, and onFileSelect is not called,
\* so an oversized file never becomes the parent's file; a file with a listed
\* type or extension and at most 50*1024*1024 bytes (exactly 50MB included)
\* is accepted.
C8_OversizedFileRejected ==
    /\ up.lastFile.size > 50 * 1024 * 1024 =>
          /\ ~up.valid
          /\ ~up.called
          /\ upError # Null
    /\ file.size <= 50 * 1024 * 1024
    /\ ( /\ up.lastFile # NoFile
         /\ HasListedType(skill, up.lastFile)
              \/ HasListedExtension(skill, up.lastFile.name)
         /\ up.lastFile.size <= 50 * 1024 * 1024 ) =>
          /\ up.valid
          /\ up.called
          /\ upError = Null
          /\ file = up.lastFile

C8_Witness ==
    /\ up.lastFile.size = 50 * 1024 * 1024 + 1
    /\ HasListedType(skill, up.lastFile)
    /\ HasListedExtension(skill, up.lastFile.name)
    /\ ~up.valid
    /\ upError = SizeErrorText
    /\ file.size = 50 * 1024 * 1024

\* C9 as stated: a file is passed to onFileSelect only if its MIME type is
\* listed and its extension is listed, and every such file within the size
\* limit is.
C9_AcceptedIffTypeAndExtensionListed ==
    (up.lastFile # NoFile /\ up.lastFile.size <= maxSize) =>
        (up.called <=>
            /\ HasListedType(skill, up.lastFile)
            /\ HasListedExtension(skill, up.lastFile.name))

\* C9 as amended: within the size limit, a file is passed to onFileSelect
\* if and only if its MIME type is listed or its name ends, in any letter
\* case, in a listed extension; only a file with both outside the lists is
\* rejected.
C9_AcceptedIffTypeOrExtensionListed ==
    /\ (up.lastFile # NoFile /\ up.lastFile.size <= maxSize) =>
          (up.called <=>
              \/ HasListedType(skill, up.lastFile)
              \/ HasListedExtension(skill, up.lastFile.name))
    /\ up.called => (up.valid /\ file = up.lastFile)
    /\ (up.lastFile # NoFile /\ ~up.called) => upError # Null

C9_Witness ==
    /\ up.called
    /\ HasListedType(skill, up.lastFile)
    /\ ~HasListedExtension(skill, up.lastFile.name)
    /\ file = up.lastFile

----------------------------------------------------------------------------
(* Properties of the components, checked under Spec and LiveSpec *)

\* C6: in each of the three skills every started run eventually ends and
\* clears its loading flag, whatever the backend answers (the poll loop is
\* bounded).
C6_EveryRunTerminates == loading ~> ~loading

\* The error kinds of a failed run of ConversationAnalysis.
ErrorKinds == {"upload", "failed", "timeout"}

\* The texts ConversationAnalysis shows for a failure of kind k.
ErrorsShownFor(k) ==
    CASE k = "upload" ->
           { AnalyzeConversationError(UploadError(code)) : code \in HttpErrors }
      [] k = "failed" ->
           { AnalyzeConversationError(ProcessingFailedError(m)) : m \in Messages }
      [] OTHER -> { AnalyzeConversationError(TimeoutError) }

Carries(text, m) == \E i \in DOMAIN text : text[i] = m

\* C10: the error ConversationAnalysis shows after a failed run tells the
\* kind of failure (upload failure, backend 'failed' status, poll timeout)
\* apart from the other kinds, and for a 'failed' status with message m it
\* carries m.
C10_ErrorKindsDistinguishable ==
    ( /\ skill = "audio"
      /\ runPc = "idle"
      /\ run.cause \in ErrorKinds
      /\ error # Null ) =>
        /\ \A k \in ErrorKinds \ {run.cause} : error \notin ErrorsShownFor(k)
        /\ run.cause = "failed" => Carries(error, run.message)

----------------------------------------------------------------------------
(* Properties of the components: how a run ends *)

\* {error && <Alert>}: the alert is rendered when the error state is a
\* non-empty text.
AlertRendered(e) == e # Null /\ \E i \in DOMAIN e : e[i] # ""

\* The step ends a run in failure.
RunFails == runPc # "idle" /\ runPc' = "idle" /\ run'.cause # "done"

\* C11: in every skill component, a run that ends in failure (upload
\* failure, 'failed' status with any message, an empty one included, network
\* error, timeout) leaves a non-empty error, so the error alert is rendered.
C11_FailedRunShowsAlert == [][RunFails => AlertRendered(error')]_vars

\* C12: in every skill component no result is displayed once a run has
\* ended in failure: result and error are never both set, whatever files
\* were selected and runs made before (a failed re-run on the same file after
\* a successful run included).
C12_NeverResultAndError == ~(result # NoResult /\ error # Null)

\* The step starts a run: one of the process functions is called.
RunStarts == ProcessAudio \/ ProcessImage \/ ProcessDocument

\* C13: in each component, under every interleaving of file selections,
\* clicks, tab changes and backend responses, at most one run is in flight:
\* loading is true exactly while a run is in flight, and a run starts only
\* when loading is false and no run is in flight.
C13_OneRunAtATime ==
    /\ [](loading <=> runPc # "idle")
    /\ [][RunStarts => (~loading /\ runPc = "idle")]_vars

\* A run waits for a status answer while the user has selected another file
\* than the one the run was started on.
C13_Witness ==
    /\ loading
    /\ runPc \in {"awaitStatus", "poll"}
    /\ run.file # NoFile
    /\ file # run.file

----------------------------------------------------------------------------
(* Properties of the requests, checked under SpecRequests *)

\* The paths of the requests made about one job.
JobPaths == {"/status/", "/result/"}

\* The status of the status answer the run in flight parsed last.
LastStatus == IF skill = "audio" THEN status.status ELSE run.seen

\* C14: a run is sequential per job. It makes at most one submit POST, and
\* exactly one before any request about a job and by the time it has ended
\* (the client-side fallback of ConversationAnalysis, which has no job, makes
\* none); every status or result GET of a run in flight comes after the
\* submit answered and carries the job id it answered; a result GET is made
\* only after a 'completed' status answer; a request that names a job id is
\* a GET; and nothing is requested once the run has produced its result
\* or error.
C14_SequentialPerJob ==
    /\ [] /\ run.posts <= 1
          /\ (runPc # "idle" /\ net.path \in JobPaths) =>
                /\ run.posts = 1
                /\ run.jobId # None
                /\ net.id = run.jobId
          /\ (runPc # "idle" /\ net.path = "/result/") =>
                LastStatus = "completed"
          /\ net.id # None => (net.method = "GET" /\ net.path \in JobPaths)
          /\ net.path \in JobPaths => net.id # None
          /\ (runPc = "idle" /\ run.cause # None /\ run.available # "no") =>
                run.posts = 1
          /\ run.available = "no" => run.posts = 0
    /\ [][(runPc = "idle" /\ runPc' = "idle") => net' = net]_vars

\* A run has ended with a result, fetched for the job id j2 the backend had
\* answered its submit with.
C14_Witness ==
    /\ runPc = "idle"
    /\ run.cause = "done"
    /\ run.posts = 1
    /\ net = Request("GET", IF skill = "audio" THEN API_BASE ELSE DefaultBase,
                     "/result/", "j2")

\* C19: every request of every skill goes to the configured base URL: when
\* the page is built with a base URL other than http://localhost:8000,
\* no request is sent to http://localhost:8000.
C19_RequestsGoToConfiguredBase ==
    (env # None /\ env # DefaultBase /\ net # NoRequest) =>
        /\ net.base # DefaultBase
        /\ net.base = env

\* C15: in processAudio the client-side diarizer is used in a run if and
\* only if that run's availability probe failed; such a run issues no upload
\* and no status request (its only request is the probe) and its result is
\* the one built client-side from the mock transcript; a run whose probe
\* succeeded shows the backend's result.
C15_DiarizerIffProbeFailed ==
    /\ [] /\ run.diarized => (skill = "audio" /\ run.available = "no")
          /\ (skill = "audio" /\ runPc = "idle" /\ run.cause = "done") =>
                (run.diarized <=> run.available = "no")
          /\ run.available = "no" =>
                /\ run.posts = 0
                /\ run.jobId = None
                /\ pollPc = "idle"
                /\ net = Request("GET", API_BASE, "/", None)
          /\ (run.available = "yes" /\ runPc # "idle") =>
                runPc \in {"upload", "poll"}
    /\ [][(skill = "audio" /\ runPc # "idle" /\ runPc' = "idle"
             /\ run'.cause = "done") =>
                result'.source =
                    IF run.available = "no" THEN "mock" ELSE "backend"]_vars

\* A run whose probe failed has ended with the client-side result.
C15_Witness ==
    /\ skill = "audio"
    /\ runPc = "idle"
    /\ run.cause = "done"
    /\ run.available = "no"
    /\ run.diarized
    /\ result.source = "mock"
    /\ net.path = "/"

----------------------------------------------------------------------------
(* Properties of diarizeTranscript, checked under SpecDiarize *)

\* The text begins with an explicit "Speaker N:" label.
LabelEnd(text) ==
    IF Len(text) >= 3 /\ text[1] = "Speaker " /\ text[2] \in Digits
       /\ RunEnd(text, 2, Digits) < Len(text)
       /\ text[RunEnd(text, 2, Digits) + 1] = ":"
    THEN RunEnd(text, 2, Digits) + 1
    ELSE 0

\* What follows the label and the whitespace after it, to the end of the
\* segment.
AfterLabel(text) ==
    SubSeq(text, RunEnd(text, LabelEnd(text) + 1, Whitespace) + 1, Len(text))

\* C16: for every segment that begins with an explicit "Speaker N:" label the
\* output segment's speaker is exactly "Speaker N" and its text is the whole
\* remainder of the segment after the label and the whitespace following it,
\* further lines of the segment included.
C16_LabelStrippedTextKept ==
    diar.pc = "returned" =>
        \A i \in DOMAIN diar.segments :
            LET text == diar.segments[i].text
            IN  LabelEnd(text) > 0 =>
                  /\ diar.result[i].speaker = SubSeq(text, 1, LabelEnd(text) - 1)
                  /\ diar.result[i].text = AfterLabel(text)

\* The segment carries no label and matches no phrase pattern.
Unmarked(text) ==
    /\ LabelEnd(text) = 0
    /\ ~SomePatternMatches(customerServicePatterns, text)
    /\ ~SomePatternMatches(customerPatterns, text)

\* C17: every unlabeled segment that matches no phrase pattern gets its
\* speaker by the parity of its 0-based position among the retained (non-blank)
\* segments, "Speaker 1" when even and "Speaker 2" when odd, so two such
\* segments in a row get different speakers.
C17_UnmarkedByParity ==
    diar.pc = "returned" =>
        /\ Len(diar.result) = Len(diar.segments)
        /\ Len(diar.segments) =
              Cardinality({ k \in DOMAIN Split(diar.transcript) :
                              NonEmptyLine(Split(diar.transcript)[k]) })
        /\ \A i \in DOMAIN diar.segments :
              LET text == diar.segments[i].text
              IN  Unmarked(text) =>
                    /\ diar.result[i].speaker =
                          IF (i - 1) % 2 = 0
                          THEN <<"Speaker ", "1">> ELSE <<"Speaker ", "2">>
                    /\ diar.result[i].text = text
        /\ \A i \in DOMAIN diar.segments :
              ( /\ i + 1 \in DOMAIN diar.segments
                /\ Unmarked(diar.segments[i].text)
                /\ Unmarked(diar.segments[i + 1].text) ) =>
                    diar.result[i].speaker # diar.result[i + 1].speaker

\* A blank paragraph was dropped and the two unmarked segments after it got
\* Speaker 1 and Speaker 2.
C17_Witness ==
    /\ diar.pc = "returned"
    /\ Len(Split(diar.transcript)) = 3
    /\ ~NonEmptyLine(Split(diar.transcript)[1])
    /\ Len(diar.result) = 2
    /\ Unmarked(diar.segments[1].text)
    /\ Unmarked(diar.segments[2].text)
    /\ diar.result[1].speaker = <<"Speaker ", "1">>
    /\ diar.result[2].speaker = <<"Speaker ", "2">>

\* C18: every segment diarizeTranscript returns has speaker "Speaker 1" or
\* "Speaker 2", whatever the transcript, explicit labels such as "Speaker 3:"
\* included.
C18_AtMostTwoSpeakers ==
    diar.pc = "returned" =>
        \A i \in DOMAIN diar.result :
            diar.result[i].speaker \in {<<"Speaker ", "1">>, <<"Speaker ", "2">>}

----------------------------------------------------------------------------
(* The progress callback of pollForResults, checked under SpecPoll *)

\* C20: with a progress callback supplied, the callback is invoked exactly
\* once for each status response received, the terminal 'completed' or
\* 'failed' one included, with that response's (progress, message), as the
\* response arrives and before it is acted on; a status request that failed
\* invokes nothing, and without a callback nothing is invoked.
C20_CallbackOncePerResponse ==
    /\ [] /\ onProgress => h.callbacks = h.received
          /\ ~onProgress => h.callbacks = 0
          /\ (onProgress /\ status # NoStatus) =>
                h.lastCallback = <<status.progress, status.message>>
    /\ [][(onProgress /\ \E s \in BackendStatusResponses : PollStatusOk(s)) =>
              /\ h'.callbacks = h.callbacks + 1
              /\ h'.lastCallback = <<status'.progress, status'.message>>]_vars
    /\ [][h'.callbacks # h.callbacks =>
              /\ pollPc = "awaitStatus"
              /\ h'.received = h.received + 1]_vars
    /\ [][PollStatusFailed => h'.callbacks = h.callbacks]_vars

\* The call returned after four status requests, one of which failed: three
\* responses, three callbacks, the last one with the completed response's
\* progress and message.
C20_Witness ==
    /\ onProgress
    /\ pollPc = "returned"
    /\ h.statusRequests = 4
    /\ h.received = 3
    /\ h.callbacks = 3
    /\ status.status = "completed"
    /\ h.lastCallback = <<status.progress, status.message>>

----------------------------------------------------------------------------
(* The retry budget of pollForResults, checked under SpecPoll *)

\* The step is an error caught by the catch block: a status or result request
\* that failed, or the throw for a 'failed' status.
ErrorCaught ==
    \/ PollStatusFailed
    \/ PollResultFailed
    \/ \E s \in BackendStatusResponses : s.status = "failed" /\ PollStatusOk(s)

\* C21: in one poll at most 3 errors are retried in total, whatever the
\* responses and errors; a retried error is followed by the 2-second delay
\* before the next request, and an error caught after 3 retries (the fourth
\* at the latest) is propagated to the caller.
C21_AtMostThreeRetries ==
    /\ [](h.retries <= 3)
    /\ [][ErrorCaught =>
              \/ /\ pollPc' = "delay2"
                 /\ h'.retries = h.retries + 1
                 /\ h'.statusRequests = h.statusRequests
                 /\ h'.resultRequests = h.resultRequests
              \/ /\ pollPc' = "thrown"
                 /\ h'.retries = h.retries]_vars
    /\ [][(ErrorCaught /\ h.retries = 3) => pollPc' = "thrown"]_vars
    /\ [][h'.retries # h.retries => ErrorCaught]_vars
    /\ [][pollPc = "delay2" => PollDelay2]_vars

\* Three errors were retried and the fourth was propagated.
C21_Witness ==
    /\ pollPc = "thrown"
    /\ h.retries = 3
    /\ h.thrownAt \in {"statusNetwork", "statusCheck", "resultNetwork",
                       "resultFetch", "failed"}

----------------------------------------------------------------------------
(* A failed submit, checked under SpecRequests *)

\* C22: when the submit (POST /upload-audio, /upload-image, /upload-document
\* or /summarize-url) fails, the run ends there with an error: no status or
\* result request is issued for it and the submit is not made again.
C22_FailedSubmitEndsRun ==
    /\ [][(SubmitFailed \/ AudioUploadFailed) =>
              /\ runPc' = "idle"
              /\ ~loading'
              /\ error' # Null
              /\ net' = net
              /\ run'.posts = 1
              /\ run'.cause \in {"upload", "uploadNetwork"}
              /\ pollPc' = "idle"]_vars
    /\ []((runPc = "idle" /\ run.cause \in {"upload", "uploadNetwork"}) =>
              /\ net.method = "POST"
              /\ net.id = None
              /\ run.posts = 1
              /\ run.jobId = None
              /\ h.statusRequests = 0)

\* POST /summarize-url was answered with a non-2xx code and the run has ended.
C22_Witness ==
    /\ runPc = "idle"
    /\ run.cause = "upload"
    /\ net = Request("POST", DefaultBase, "/summarize-url", None)
    /\ error = <<"Failed to process URL">>
    /\ ~loading

----------------------------------------------------------------------------
(* The phrase patterns of determineSpeaker, checked under SpecDiarize *)

\* The text holds a phrase of the service agent's list, or of the customer's.
HasServicePhrase(text) == \E i \in DOMAIN text : text[i] = "How can I help"

HasCustomerPhrase(text) == \E i \in DOMAIN text : text[i] = "CAN YOU TELL ME"

\* C23: an unlabeled segment that matches a service-agent pattern is
\* "Speaker 1" whatever its position, also when it matches a customer pattern
\* too; one that matches a customer pattern only is "Speaker 2" whatever its
\* position; the parity of the position is used only when neither list
\* matches.
C23_PatternsBeforeParity ==
    diar.pc = "returned" =>
        \A i \in DOMAIN diar.segments :
            LET text == diar.segments[i].text
            IN  LabelEnd(text) = 0 =>
                  /\ diar.result[i].text = text
                  /\ diar.result[i].speaker =
                        CASE HasServicePhrase(text) -> <<"Speaker ", "1">>
                          [] HasCustomerPhrase(text) -> <<"Speaker ", "2">>
                          [] (i - 1) % 2 = 0 -> <<"Speaker ", "1">>
                          [] OTHER -> <<"Speaker ", "2">>

\* A customer phrase at an even position got Speaker 2, and a segment with
\* phrases of both lists at an odd position got Speaker 1.
C23_Witness ==
    /\ diar.pc = "returned"
    /\ Len(diar.result) >= 2
    /\ HasCustomerPhrase(diar.segments[1].text)
    /\ ~HasServicePhrase(diar.segments[1].text)
    /\ diar.result[1].speaker = <<"Speaker ", "2">>
    /\ HasCustomerPhrase(diar.segments[2].text)
    /\ HasServicePhrase(diar.segments[2].text)
    /\ diar.result[2].speaker = <<"Speaker ", "1">>

----------------------------------------------------------------------------
(* The segments of diarizeTranscript, checked under SpecDiarize *)

\* The block holds nothing but whitespace.
IsBlank(block) == \A i \in DOMAIN block : block[i] \in Whitespace

\* The positions, among the blocks, of those that are not blank.
Retained(blocks) == { k \in DOMAIN blocks : ~IsBlank(blocks[k]) }

\* The block the i-th retained one is.
RetainedAt(blocks, i) ==
    CHOOSE k \in Retained(blocks) :
        Cardinality({ j \in Retained(blocks) : j <= k }) = i

\* C24: the output has exactly one segment per block of the transcript
\* (blocks are separated by "\n\n") that is not whitespace-only, in the
\* original order; a whitespace-only block gives no segment and takes no
\* position: the index that parity and timestamps use is the position among
\* the retained blocks.
C24_OneSegmentPerRetainedBlock ==
    diar.pc = "returned" =>
        LET blocks == Split(diar.transcript)
        IN  /\ Len(diar.result) = Cardinality(Retained(blocks))
            /\ Len(diar.segments) = Cardinality(Retained(blocks))
            /\ \A i \in DOMAIN diar.result :
                  /\ diar.segments[i].text = Trim(blocks[RetainedAt(blocks, i)])
                  /\ diar.segments[i].index = i - 1
                  /\ diar.result[i].timestamp = generateTimestamp(i - 1)
                  /\ diar.result[i] =
                        [ speaker |->
                            determineSpeaker(diar.segments[i].text, i - 1).speaker,
                          text |->
                            determineSpeaker(diar.segments[i].text, i - 1).cleanedText,
                          timestamp |-> generateTimestamp(i - 1) ]

\* The middle one of three blocks was whitespace-only: two segments, the
\* second at position 1.
C24_Witness ==
    /\ diar.pc = "returned"
    /\ Len(Split(diar.transcript)) = 3
    /\ IsBlank(Split(diar.transcript)[2])
    /\ Len(diar.result) = 2
    /\ diar.segments[2].index = 1
    /\ diar.result[2].speaker = <<"Speaker ", "2">>
    /\ diar.result[2].timestamp = generateTimestamp(1)

----------------------------------------------------------------------------
(* The timestamps of identifySpeakers, checked under SpecTimestamp *)

TimeDigits == {"0", "1", "2", "3", "4", "5", "6", "7", "8", "9"}

\* The number a digit character stands for.
DigitValue(c) == CHOOSE n \in 0..9 : DigitChar(n) = c

\* The number the two characters at positions p and p + 1 stand for.
FieldAt(ts, p) == 10 * DigitValue(ts[p]) + DigitValue(ts[p + 1])

\* ts has the shape HH:MM:SS.
IsHHMMSS(ts) ==
    /\ Len(ts) = 8
    /\ ts[3] = ":" /\ ts[6] = ":"
    /\ \A p \in {1, 2, 4, 5, 7, 8} : ts[p] \in TimeDigits
    /\ FieldAt(ts, 1) <= 24 /\ FieldAt(ts, 4) < 60 /\ FieldAt(ts, 7) < 60

\* The second of the day ts names (hour 24 is midnight's hour).
TimeOfDay(ts) ==
    (FieldAt(ts, 1) % 24) * 3600 + FieldAt(ts, 4) * 60 + FieldAt(ts, 7)

----------------------------------------------------------------------------
(* The bound of pollForResults, checked under LivePollSpec *)

\* C26: whatever the interleaving of non-terminal responses, HTTP errors and
\* retried errors, one poll issues at most 120 status requests, because each
\* request that does not end the poll costs one attempt, whether it was a
\* successful poll or a retry; and, every request completing, the poll ends
\* (with a result, an error or the timeout).
C26_AtMost120RequestsAndEnds ==
    /\ [](h.statusRequests <= 120)
    /\ [](attempts <= 120)
    /\ [](h.statusRequests \in {attempts, attempts + 1})
    /\ <>(pollPc \in {"returned", "thrown"})

\* The 120th request was issued after successful polls, a failed status
\* check and retries, and the poll ended with the timeout.
C26_Witness ==
    /\ pollPc = "thrown"
    /\ pollError = TimeoutError
    /\ h.statusRequests = 120
    /\ h.retries > 0
    /\ h.nonTerminal > 0
    /\ h.nonTerminal + h.retries = 120

----------------------------------------------------------------------------
(* The components' state around a run, checked under Spec *)

\* C27: a result on display was produced from the file, or the URL, that the
\* component's selection state holds now; in particular a file selected while
\* a run is in flight is never shown with the earlier file's result.
C27_ResultOfCurrentSelection ==
    result # NoResult => result.name \in {file.name, <<url>>}

\* A run of the component ends.
RunEnds == runPc # "idle" /\ runPc' = "idle"

\* C28: loading is true from the start of a run until the run ends and false
\* at all other times; when a run ends, by success or by any error, loading
\* is false and progress is 0 again.
C28_LoadingExactlyDuringRun ==
    /\ [](loading <=> runPc # "idle")
    /\ [][RunStarts => (~loading /\ loading' /\ progress' = 0)]_vars
    /\ [][RunEnds => (loading /\ ~loading' /\ progress' = 0)]_vars
    /\ [][(loading' # loading) => (RunStarts \/ RunEnds)]_vars

\* A run ended on a status answer of 'failed', which had set the progress:
\* nothing is loading and the progress is 0.
C28_Witness ==
    /\ runPc = "idle"
    /\ run.cause = "failed"
    /\ run.message = "bad audio"
    /\ error # Null
    /\ ~loading
    /\ progress = 0

----------------------------------------------------------------------------
(* The loops of processImage and processDocument, checked under Spec *)

\* C29: in processImage and processDocument the first status answer of
\* 'failed', at whatever poll, ends the polling at once (no status or result
\* request follows in the run) and the error on display is exactly the
\* backend's message; a 'completed' answer is followed by exactly one
\* GET /result/{job_id}, whose body becomes the result, with activeTab back
\* at 0.
C29_FailedEndsCompletedFetchesOnce ==
    /\ [][\A s \in ComponentStatusResponses :
            (LoopStatusOk(s) /\ s.status = "failed") =>
                /\ runPc' = "idle"
                /\ net' = net
                /\ error' = <<s.message>>
                /\ result' = result
                /\ ~loading']_vars
    /\ [][(skill \in {"image", "document"} /\ runPc = "idle" /\ net' # net) =>
            RunStarts]_vars
    /\ [][\A s \in ComponentStatusResponses :
            (LoopStatusOk(s) /\ s.status = "completed") =>
                /\ runPc' = "awaitResult"
                /\ net'.method = "GET"
                /\ net'.path = "/result/"
                /\ net'.id = run.jobId
                /\ result' = result]_vars
    /\ [][(skill \in {"image", "document"} /\ runPc = "awaitResult") =>
            /\ net' = net
            /\ runPc' \in {"awaitResult", "idle"}]_vars
    /\ [][\A body \in ComponentResults :
            LoopResultOk(body) =>
                /\ result'.body = body
                /\ activeTab' = 0
                /\ runPc' = "idle"]_vars

\* A first run of ImageAnalysis completed and its result body is on display
\* on tab 0; the second run ended on a 'failed' answer, whose message is
\* the error, and the last request made is the status request.
C29_Witness ==
    /\ skill = "image"
    /\ runPc = "idle"
    /\ run.cause = "failed"
    /\ error = <<"bad audio">>
    /\ net.path = "/status/"
    /\ result.body = "r1"
    /\ activeTab = 0

----------------------------------------------------------------------------
(* The uploaders inside their components, checked under SpecReselect *)

\* The file fails the type check as the claim words it.
TypeRejected(kind, f) ==
    ~HasListedType(kind, f) /\ ~HasListedExtension(kind, f.name)

\* C30: in each uploader the type check rejects a file if and only if its
\* MIME type is not listed and its name does not end, in any letter case, in
\* an allowed extension; the type check comes before the size check (a file
\* failing both gets the type error); a rejected file does not reach
\* onFileSelect and leaves the parent's file, result and error as they were;
\* an accepted file clears the uploader's error.
C30_TypeCheckThenSizeCheck ==
    [][\A f \in ReselectFiles(skill) :
         HandleFile(f) =>
            /\ TypeRejected(skill, f) =>
                  /\ upError' \notin {Null, <<"File size must be less than 50MB">>}
                  /\ ~up'.called
            /\ (~TypeRejected(skill, f) /\ f.size > 50 * 1024 * 1024) =>
                  /\ upError' = <<"File size must be less than 50MB">>
                  /\ ~up'.called
            /\ ~up'.called =>
                  /\ TypeRejected(skill, f) \/ f.size > 50 * 1024 * 1024
                  /\ file' = file /\ result' = result /\ error' = error
            /\ up'.called =>
                  /\ upError' = Null
                  /\ file' = f]_vars

\* With a result on display, a file that fails both checks was dropped: the
\* uploader shows the type error, the parent still holds the earlier file
\* and its result.
C30_Witness ==
    /\ up.lastFile # NoFile
    /\ TypeRejected(skill, up.lastFile)
    /\ up.lastFile.size > 50 * 1024 * 1024
    /\ ~up.called
    /\ upError \notin {Null, SizeErrorText}
    /\ file # NoFile
    /\ result # NoResult

====
